---------------------------- MODULE Spec2Model ----------------------------
(***************************************************************************)
(* A model of sankey-sales (src/main.py): the constant table, the graph    *)
(* assembler build_sankey_data, the colour conversion hex_to_rgba and the  *)
(* export pipeline main.                                                   *)
(*                                                                         *)
(* Numbers.  The figures of the constant table are Python float literals   *)
(* with at most three decimals.  A literal is written here as its number   *)
(* of thousandths (44.379 is 44379) and Lit turns it into the IEEE-754     *)
(* double the interpreter reads.  A double is a record [m, e]: m is the    *)
(* 53-bit significand as a sequence of bits, least significant first, and  *)
(* the value is m * 2^e.  Zero is [m |-> <<>>, e |-> 0].                   *)
(*                                                                         *)
(* Text.  A Python string is a sequence of one-character strings.          *)
(***************************************************************************)
EXTENDS Integers, Sequences, FiniteSets, TLC

VARIABLES outputFormat, pc, run, data, fig, dirState, files, log, written,
          shown, failedAt, firstRunFiles, successes, hexIn,
          hexOut

vars == <<outputFormat, pc, run, data, fig, dirState, files, log, written,
          shown, failedAt, firstRunFiles, successes, hexIn,
          hexOut>>

---------------------------------------------------------------------------
(* Bounds of the model. *)

\* Number of times the script is run against the same file system.
MaxRuns == 3

\* Longest string handed to hex_to_rgba in SpecHex.
MaxHexLen == 7

---------------------------------------------------------------------------
(* Binary arithmetic on bit sequences (least significant bit first). *)

RECURSIVE BitsOfNat(_)
BitsOfNat(n) == IF n = 0 THEN <<>> ELSE <<n % 2>> \o BitsOfNat(n \div 2)

RECURSIVE NatOfBits(_)
NatOfBits(b) == IF b = <<>> THEN 0 ELSE b[1] + 2 * NatOfBits(Tail(b))

\* b without its leading (high) zero bits.
Trim(b) ==
    LET ones == {i \in 1..Len(b) : b[i] = 1}
        top  == IF ones = {} THEN 0
                ELSE CHOOSE i \in ones : \A j \in ones : j <= i
    IN  SubSeq(b, 1, top)

Shl(b, k) == [i \in 1..k |-> 0] \o b

BitAt(b, i) == IF i <= Len(b) THEN b[i] ELSE 0

\* The carry into bit i of a + b: some lower bit generates a carry and every
\* bit between propagates it.
CarryInto(a, b, i) ==
    IF \E j \in 1..(i - 1) :
          /\ BitAt(a, j) + BitAt(b, j) = 2
          /\ \A k \in (j + 1)..(i - 1) : BitAt(a, k) + BitAt(b, k) >= 1
    THEN 1 ELSE 0

AddBits(a, b) ==
    LET n == (IF Len(a) > Len(b) THEN Len(a) ELSE Len(b)) + 1
    IN  Trim([i \in 1..n |->
                (BitAt(a, i) + BitAt(b, i) + CarryInto(a, b, i)) % 2])

\* The 8 bits of the byte d, least significant first.
ByteBits(d) == [i \in 1..8 |-> (d \div (2 ^ (i - 1))) % 2]

\* The binary expansion of the fraction rem / 1000, k bytes of it, most
\* significant byte first: <<bytes, remainder left>>.
RECURSIVE FracBytes(_, _)
FracBytes(rem, k) ==
    IF k = 0 THEN <<<<>>, rem>>
    ELSE LET t    == rem * 256
             rest == FracBytes(t % 1000, k - 1)
         IN  <<<<t \div 1000>> \o rest[1], rest[2]>>

\* The bits of a byte sequence (most significant byte first).
RECURSIVE BytesToBits(_)
BytesToBits(ds) ==
    IF ds = <<>> THEN <<>>
    ELSE BytesToBits(Tail(ds)) \o ByteBits(Head(ds))

\* b with its d lowest bits dropped, rounded to nearest, ties to even;
\* sticky says that a nonzero part below b was already discarded.
RoundShift(b, d, sticky) ==
    IF d = 0 THEN Trim(b)
    ELSE LET kept  == IF d >= Len(b) THEN <<>> ELSE SubSeq(b, d + 1, Len(b))
             half  == BitAt(b, d)
             below == sticky \/ \E i \in 1..(d - 1) : BitAt(b, i) = 1
             odd   == BitAt(kept, 1) = 1
             up    == half = 1 /\ (below \/ odd)
         IN  IF up THEN AddBits(kept, <<1>>) ELSE Trim(kept)

---------------------------------------------------------------------------
(* IEEE-754 double precision, positive values, round to nearest even. *)

Precision == 53

Zero == [m |-> <<>>, e |-> 0]

\* The double nearest to bits * 2^e (plus a discarded nonzero part when
\* sticky), in canonical form: 53 bits, the top one set.
Normalize(bits, e, sticky) ==
    LET b == Trim(bits)
        n == Len(b)
    IN  IF n = 0 THEN Zero
        ELSE IF n <= Precision
        THEN [m |-> Shl(b, Precision - n), e |-> e - (Precision - n)]
        ELSE LET r == RoundShift(b, n - Precision, sticky)
             IN  IF Len(r) > Precision
                 THEN [m |-> Tail(r), e |-> e + (n - Precision) + 1]
                 ELSE [m |-> r, e |-> e + (n - Precision)]

\* The double a decimal literal of n thousandths denotes: n / 1000 expanded
\* to 64 binary places and correctly rounded.
Lit(n) ==
    LET fr   == FracBytes(n % 1000, 8)
        bits == BytesToBits(fr[1]) \o BitsOfNat(n \div 1000)
    IN  Normalize(bits, 0 - 64, fr[2] # 0)

\* Addition that chops the exact sum to 53 bits instead of rounding it.
FAddTruncating(x, y) ==
    IF x.m = <<>> THEN y
    ELSE IF y.m = <<>> THEN x
    ELSE LET e == IF x.e < y.e THEN x.e ELSE y.e
             b == AddBits(Shl(x.m, x.e - e), Shl(y.m, y.e - e))
         IN  [m |-> SubSeq(b, Len(b) - Precision + 1, Len(b)),
              e |-> e + (Len(b) - Precision)]

\* Floating-point addition x + y.
FAdd(x, y) ==
    IF x.m = <<>> THEN y
    ELSE IF y.m = <<>> THEN x
    ELSE LET e == IF x.e < y.e THEN x.e ELSE y.e
         IN  Normalize(AddBits(Shl(x.m, x.e - e), Shl(y.m, y.e - e)), e, FALSE)

\* sum(xs): the built-in adds left to right, starting from 0 (the
\* compensated summation of later interpreters gives the same float here).
RECURSIVE SumFrom(_, _, _)
SumFrom(xs, i, acc) ==
    IF i > Len(xs) THEN acc ELSE SumFrom(xs, i + 1, FAdd(acc, xs[i]))

FSum(xs) == SumFrom(xs, 1, Zero)

\* The integer nearest to x * k (ties to even), for k in {100, 1000}: what
\* formatting x with 2 (k = 100) or 3 (k = 1000) decimals prints, without
\* the decimal point.
RECURSIVE MulSmall(_, _)
MulSmall(b, k) ==
    IF k = 0 THEN <<>>
    ELSE LET rest == Shl(MulSmall(b, k \div 2), 1)
         IN  IF k % 2 = 1 THEN AddBits(rest, b) ELSE Trim(rest)

Scaled(x, k) ==
    LET p == MulSmall(x.m, k)
    IN  IF x.e >= 0 THEN NatOfBits(Shl(p, x.e))
        ELSE NatOfBits(RoundShift(p, 0 - x.e, FALSE))

---------------------------------------------------------------------------
(* OUTPUT CONFIGURATION *)

OUTPUT_DIR == "output"

OUTPUT_NAME == "sankey_chart"

\* The values OUTPUT_FORMAT is documented to take, and one that is none of
\* them (the constant is edited by hand in the source).
OutputFormats == {"html", "png", "both", "svg"}

---------------------------------------------------------------------------
(* DATA: the constant table, in thousandths. *)

\* A dict keeps insertion order: a sequence of <<key, value>> pairs.
PRODUCTS ==
    << <<"iPhone", 47000>>, <<"Mac", 9200>>, <<"iPad", 6700>>,
       <<"Wearables", 9377>> >>

\* d[key] for a dict d; every key looked up below is present.
Get(d, key) == (CHOOSE i \in 1..Len(d) : d[i][1] = key)

Product(key) == Lit(PRODUCTS[Get(PRODUCTS, key)][2])

\* REVENUE = sum(PRODUCTS.values())
REVENUE == FSum([i \in 1..Len(PRODUCTS) |-> Lit(PRODUCTS[i][2])])

COGS == 44379
GROSS_PROFIT == 27898
OPERATING_EXPENSES == 20199
OPERATING_PROFIT == 7699
NET_PROFIT == 5638
TAXES == 2118
OTHER_INCOME == 56
INDUSTRIAL == 6277
COMMERCIAL == 8038
ADMINISTRATIVE == 4069
R_AND_D == 10
HEADQTR == 936
DEPRECIATION == 868
RAW_MATERIAL == 37024
LABOR_COSTS == 5365
OTHER_COGS == 1990

---------------------------------------------------------------------------
(* CHART CONFIGURATION *)

COLORS ==
    << <<"blue",  <<"#", "4", "A", "9", "0", "D", "9">> >>,
       <<"green", <<"#", "2", "7", "A", "E", "6", "0">> >>,
       <<"red",   <<"#", "C", "0", "3", "9", "2", "B">> >> >>

Color(key) == COLORS[Get(COLORS, key)][2]

\* The alpha of the link colours: the literal 0.5, whose repr is its text.
LinkAlpha == <<"0", ".", "5">>

---------------------------------------------------------------------------
(* hex_to_rgba *)

\* What a call yields: the value it returns, or the exception it raises.
Returns(v) == [raised |-> "none", value |-> v]

ValueError(v) == [raised |-> "ValueError", value |-> v]

HexDigitChars ==
    << "0", "1", "2", "3", "4", "5", "6", "7", "8", "9",
       "a", "b", "c", "d", "e", "f", "A", "B", "C", "D", "E", "F" >>

IsHexDigit(c) == \E i \in 1..Len(HexDigitChars) : HexDigitChars[i] = c

\* The value of a hex digit: 0..9, then a..f and A..F as 10..15.
HexDigitValue(c) ==
    LET i == CHOOSE k \in 1..Len(HexDigitChars) : HexDigitChars[k] = c
    IN  IF i <= 16 THEN i - 1 ELSE i - 7

Whitespace == {" ", "\t", "\n"}

\* s.lstrip(chars): s without its longest prefix made of chars.
RECURSIVE LStrip(_, _)
LStrip(s, chars) ==
    IF s # <<>> /\ Head(s) \in chars THEN LStrip(Tail(s), chars) ELSE s

RECURSIVE RStrip(_, _)
RStrip(s, chars) ==
    IF s # <<>> /\ s[Len(s)] \in chars
    THEN RStrip(SubSeq(s, 1, Len(s) - 1), chars) ELSE s

\* s[i:j] for 0 <= i <= j: the slice stops at the end of s.
Slice(s, i, j) == SubSeq(s, i + 1, IF j < Len(s) THEN j ELSE Len(s))

\* The value of a run of hex digits and underscores.
RECURSIVE DigitsValue(_, _)
DigitsValue(ds, acc) ==
    IF ds = <<>> THEN acc
    ELSE IF Head(ds) = "_" THEN DigitsValue(Tail(ds), acc)
    ELSE DigitsValue(Tail(ds), 16 * acc + HexDigitValue(Head(ds)))

\* int(s, 16): surrounding whitespace is dropped, then an optional sign, an
\* optional 0x prefix, and hex digits that single underscores may separate
\* (one may also follow the prefix); anything else raises ValueError.
IntBase16(s) ==
    LET t      == RStrip(LStrip(s, Whitespace), Whitespace)
        signed == t # <<>> /\ Head(t) \in {"+", "-"}
        u      == IF signed THEN Tail(t) ELSE t
        prefix == Len(u) >= 2 /\ u[1] = "0" /\ u[2] \in {"x", "X"}
        ds     == IF prefix THEN Slice(u, 2, Len(u)) ELSE u
        valid  ==
            /\ ds # <<>>
            /\ \A i \in 1..Len(ds) : IsHexDigit(ds[i]) \/ ds[i] = "_"
            /\ ds[Len(ds)] # "_"
            /\ ds[1] = "_" => prefix
            /\ \A i \in 1..(Len(ds) - 1) : ~(ds[i] = "_" /\ ds[i + 1] = "_")
        v      == DigitsValue(ds, 0)
    IN  IF ~valid THEN ValueError(0)
        ELSE IF signed /\ Head(t) = "-" THEN Returns(0 - v) ELSE Returns(v)

DecimalDigits == <<"0", "1", "2", "3", "4", "5", "6", "7", "8", "9">>

\* str(n) for an integer n.
RECURSIVE NatStr(_)
NatStr(n) ==
    IF n < 10 THEN <<DecimalDigits[n + 1]>>
    ELSE NatStr(n \div 10) \o <<DecimalDigits[(n % 10) + 1]>>

IntStr(n) == IF n < 0 THEN <<"-">> \o NatStr(0 - n) ELSE NatStr(n)

\* The text f"rgba({r}, {g}, {b}, {alpha})".
RgbaText(r, g, b, alpha) ==
    <<"r", "g", "b", "a", "(">> \o IntStr(r) \o <<",", " ">> \o IntStr(g)
        \o <<",", " ">> \o IntStr(b) \o <<",", " ">> \o alpha \o <<")">>

\* hex_color.lstrip("#")
StripMarker(hex_color) == LStrip(hex_color, {"#"})

\* The three slices hex_color[i : i + 2] for i in (0, 2, 4), parsed.
Channels(hex_color) ==
    [k \in 1..3 |-> IntBase16(Slice(hex_color, 2 * (k - 1), 2 * k))]

hex_to_rgba(hex_color, alpha) ==
    LET ch == Channels(StripMarker(hex_color))
    IN  IF \E k \in 1..3 : ch[k].raised # "none" THEN ValueError(<<>>)
        ELSE Returns(RgbaText(ch[1].value, ch[2].value, ch[3].value, alpha))

---------------------------------------------------------------------------
(* build_sankey_data *)

\* Node and link lists are 0-indexed in the program; list[k] is At(list, k).
At(list, k) == list[k + 1]

\* (name, value) for each node, in declaration order: the index matters.
node_data ==
    << <<"iPhone", Product("iPhone")>>,
       <<"Mac", Product("Mac")>>,
       <<"iPad", Product("iPad")>>,
       <<"Wearables", Product("Wearables")>>,
       <<"Revenue", REVENUE>>,
       <<"Gross Profit", Lit(GROSS_PROFIT)>>,
       <<"COGS", Lit(COGS)>>,
       <<"Operating Profit", Lit(OPERATING_PROFIT)>>,
       <<"Operating Expenses", Lit(OPERATING_EXPENSES)>>,
       <<"Net Profit", Lit(NET_PROFIT)>>,
       <<"Taxes", Lit(TAXES)>>,
       <<"Other", Lit(OTHER_INCOME)>>,
       <<"Industrial", Lit(INDUSTRIAL)>>,
       <<"Commercial", Lit(COMMERCIAL)>>,
       <<"Administrative", Lit(ADMINISTRATIVE)>>,
       <<"R & D", Lit(R_AND_D)>>,
       <<"Headqtr.", Lit(HEADQTR)>>,
       <<"Depreciation", Lit(DEPRECIATION)>>,
       <<"Raw Material", Lit(RAW_MATERIAL)>>,
       <<"Labor Costs", Lit(LABOR_COSTS)>>,
       <<"Other Costs", Lit(OTHER_COGS)>> >>

\* f"{value:.2f}": the value rounded to hundredths, two digits after the point.
Fixed2(value) ==
    LET c == Scaled(value, 100)
    IN  NatStr(c \div 100)
            \o <<".", DecimalDigits[((c % 100) \div 10) + 1],
                 DecimalDigits[(c % 10) + 1]>>

\* f"<b>{name}</b><br><b>${value:.2f}M</b>", as its pieces.
Label(name, value) ==
    <<"<b>", name, "</b><br><b>$", Fixed2(value), "M</b>">>

labels == [i \in 1..Len(node_data) |-> Label(node_data[i][1], node_data[i][2])]

node_colors ==
    << Color("blue"), Color("blue"), Color("blue"), Color("blue"),
       Color("blue"), Color("green"), Color("red"), Color("green"),
       Color("red"), Color("green"), Color("red"), Color("green"),
       Color("red"), Color("red"), Color("red"), Color("red"),
       Color("red"), Color("red"), Color("red"), Color("red"),
       Color("red") >>

\* (source_idx, target_idx, value)
links ==
    << <<0, 4, Product("iPhone")>>,
       <<1, 4, Product("Mac")>>,
       <<2, 4, Product("iPad")>>,
       <<3, 4, Product("Wearables")>>,
       <<4, 5, Lit(GROSS_PROFIT)>>,
       <<4, 6, Lit(COGS)>>,
       <<5, 7, Lit(OPERATING_PROFIT)>>,
       <<5, 8, Lit(OPERATING_EXPENSES)>>,
       <<7, 9, Lit(NET_PROFIT)>>,
       <<7, 10, Lit(TAXES)>>,
       <<7, 11, Lit(OTHER_INCOME)>>,
       <<8, 12, Lit(INDUSTRIAL)>>,
       <<8, 13, Lit(COMMERCIAL)>>,
       <<8, 14, Lit(ADMINISTRATIVE)>>,
       <<8, 15, Lit(R_AND_D)>>,
       <<8, 16, Lit(HEADQTR)>>,
       <<8, 17, Lit(DEPRECIATION)>>,
       <<6, 18, Lit(RAW_MATERIAL)>>,
       <<6, 19, Lit(LABOR_COSTS)>>,
       <<6, 20, Lit(OTHER_COGS)>> >>

sources == [i \in 1..Len(links) |-> links[i][1]]

\* targets read from l[0], the source index.
targets_from_sources == [i \in 1..Len(links) |-> links[i][1]]

targets == [i \in 1..Len(links) |-> links[i][2]]

\* values built over range(len(links) - 1): the last link is lost.
values_one_short == [i \in 1..(Len(links) - 1) |-> links[i][3]]

values == [i \in 1..Len(links) |-> links[i][3]]

\* Link colours taken from the source node.
LinkColorNodeSource(i) == sources[i]

\* The node whose colour a link takes.
LinkColorNode(i) == targets[i]

\* [hex_to_rgba(node_colors[t], 0.5) for t in targets], each a call result.
link_color_calls ==
    [i \in 1..Len(links) |-> hex_to_rgba(At(node_colors, LinkColorNode(i)), LinkAlpha)]

\* The graph with no node and no link: the value of data before the call.
NoData ==
    [labels |-> <<>>, node_colors |-> <<>>, sources |-> <<>>,
     targets |-> <<>>, values |-> <<>>, link_colors |-> <<>>]

\* The dict build_sankey_data returns, or the ValueError a colour raises.
build_sankey_data ==
    IF \E i \in 1..Len(links) : link_color_calls[i].raised # "none"
    THEN ValueError(NoData)
    ELSE Returns(
           [labels      |-> labels,
            node_colors |-> node_colors,
            sources     |-> sources,
            targets     |-> targets,
            values      |-> values,
            link_colors |-> [i \in 1..Len(links) |-> link_color_calls[i].value]])

---------------------------------------------------------------------------
(* The file system the script writes to. *)

\* OUTPUT_DIR / f"{OUTPUT_NAME}.html" and .png: <<directory, stem, suffix>>.
HtmlPath == <<OUTPUT_DIR, OUTPUT_NAME, ".html">>

PngPath == <<OUTPUT_DIR, OUTPUT_NAME, ".png">>

\* Any other entry of the output directory.
OtherPath == <<OUTPUT_DIR, "other", "">>

Paths == {HtmlPath, PngPath, OtherPath}

Absent == [by |-> 0, state |-> "absent"]

\* A file that was there before the first run.
Stale == [by |-> 0, state |-> "stale"]

\* A file the run r wrote completely, and one it left half-written.
Full(r) == [by |-> r, state |-> "full"]

Partial(r) == [by |-> r, state |-> "partial"]

Existing(fs) == {p \in Paths : fs[p] # Absent}

---------------------------------------------------------------------------
(* main, one action per call it makes. *)

\* OUTPUT_FORMAT in ("html", "both")
WantsHtml(format) == format \in {"html", "both"}

\* The html condition copied to the png export.
WantsPngCopied(format) == format \in {"html", "both"}

\* OUTPUT_FORMAT in ("png", "both")
WantsPng(format) == format \in {"png", "both"}

\* The exception is caught and logged, and main goes on to the preview.
RaiseSwallowed(step) ==
    /\ pc' = "png_done"
    /\ failedAt' = step

\* An exception leaves main: nothing catches it, the process ends.
Raise(step) ==
    /\ pc' = "failed"
    /\ failedAt' = step

\* Path.mkdir() without exist_ok: an existing directory is an error too.
MkdirOutcomesNoExistOk(d) ==
    CASE d = "dir"    -> {[ok |-> FALSE, dir |-> "dir"]}
      [] d = "file"   -> {[ok |-> FALSE, dir |-> "file"]}
      [] d = "absent" -> {[ok |-> TRUE, dir |-> "dir"],
                          [ok |-> FALSE, dir |-> "absent"]}

\* Path.mkdir(exist_ok=True) on a path in state d: the states it may leave
\* the path in, with whether it returned.  An existing directory is accepted
\* whatever the call reports; a regular file of that name is an error; a
\* missing directory is created unless the system refuses.
MkdirOutcomes(d) ==
    CASE d = "dir"    -> {[ok |-> TRUE, dir |-> "dir"]}
      [] d = "file"   -> {[ok |-> FALSE, dir |-> "file"]}
      [] d = "absent" -> {[ok |-> TRUE, dir |-> "dir"],
                          [ok |-> FALSE, dir |-> "absent"]}

\* Writing a file at a path whose content is old: the call returns with the
\* file complete, or raises and leaves the old content or a truncated file.
WriteOutcomes(old, r) ==
    {[ok |-> TRUE, content |-> Full(r)],
     [ok |-> FALSE, content |-> old],
     [ok |-> FALSE, content |-> Partial(r)]}

NotCalled == [raised |-> "pending", value |-> <<>>]

NoFigure == [node |-> <<>>, link |-> <<>>]

\* data = build_sankey_data()
BuildSankeyData ==
    /\ pc = "start"
    /\ log' = Append(log, "build_sankey_data")
    /\ IF build_sankey_data.raised = "none"
       THEN /\ data' = build_sankey_data.value
            /\ pc' = "assembled"
            /\ UNCHANGED failedAt
       ELSE /\ Raise("build_sankey_data")
            /\ UNCHANGED data
    /\ UNCHANGED <<outputFormat, run, fig, dirState, files, written, shown,
                   firstRunFiles, successes, hexIn, hexOut>>

\* fig = go.Figure(...); fig.update_layout(...): the library may raise.
CreateFigure ==
    /\ pc = "assembled"
    /\ log' = Append(log, "Figure")
    /\ \E ok \in BOOLEAN :
          IF ok
          THEN /\ fig' = [node |-> <<data.labels, data.node_colors>>,
                          link |-> <<data.sources, data.targets, data.values,
                                     data.link_colors>>]
               /\ pc' = "rendered"
               /\ UNCHANGED failedAt
          ELSE /\ Raise("Figure")
               /\ UNCHANGED fig
    /\ UNCHANGED <<outputFormat, run, data, dirState, files, written, shown,
                   firstRunFiles, successes, hexIn, hexOut>>

\* OUTPUT_DIR.mkdir(exist_ok=True)
MakeOutputDir ==
    /\ pc = "rendered"
    /\ log' = Append(log, "mkdir")
    /\ \E o \in MkdirOutcomes(dirState) :
          /\ dirState' = o.dir
          /\ IF o.ok
             THEN pc' = "dir_ready" /\ UNCHANGED failedAt
             ELSE Raise("mkdir")
    /\ UNCHANGED <<outputFormat, run, data, fig, files, written, shown,
                   firstRunFiles, successes, hexIn, hexOut>>

\* if OUTPUT_FORMAT in ("html", "both"): fig.write_html(html_path)
\* (the print of the saved path changes nothing of this state)
ExportHtml ==
    /\ pc = "dir_ready"
    /\ IF WantsHtml(outputFormat)
       THEN /\ log' = Append(log, "write_html")
            /\ \E o \in WriteOutcomes(files[HtmlPath], run) :
                  /\ files' = [files EXCEPT ![HtmlPath] = o.content]
                  /\ written' = IF o.content = files[HtmlPath] /\ ~o.ok
                                THEN written ELSE Append(written, HtmlPath)
                  /\ IF o.ok
                     THEN pc' = "html_done" /\ UNCHANGED failedAt
                     ELSE Raise("write_html")
       ELSE /\ pc' = "html_done"
            /\ UNCHANGED <<log, files, written, failedAt>>
    /\ UNCHANGED <<outputFormat, run, data, fig, dirState, shown,
                   firstRunFiles, successes, hexIn, hexOut>>

\* if OUTPUT_FORMAT in ("png", "both"): fig.write_image(png_path, scale=2)
ExportPng ==
    /\ pc = "html_done"
    /\ IF WantsPng(outputFormat)
       THEN /\ log' = Append(log, "write_image")
            /\ \E o \in WriteOutcomes(files[PngPath], run) :
                  /\ files' = [files EXCEPT ![PngPath] = o.content]
                  /\ written' = IF o.content = files[PngPath] /\ ~o.ok
                                THEN written ELSE Append(written, PngPath)
                  /\ IF o.ok
                     THEN pc' = "png_done" /\ UNCHANGED failedAt
                     ELSE Raise("write_image")
       ELSE /\ pc' = "png_done"
            /\ UNCHANGED <<log, files, written, failedAt>>
    /\ UNCHANGED <<outputFormat, run, data, fig, dirState, shown,
                   firstRunFiles, successes, hexIn, hexOut>>

\* fig.show() indented under the exports: no preview when nothing is written.
ShowFigureWhenExported ==
    /\ pc = "png_done"
    /\ IF written = <<>>
       THEN /\ pc' = "done"
            /\ firstRunFiles' = IF firstRunFiles = <<>>
                                THEN <<Existing(files)>> ELSE firstRunFiles
            /\ successes' = successes + 1
            /\ UNCHANGED <<log, shown, failedAt>>
       ELSE /\ log' = Append(log, "show")
            /\ shown' = shown + 1
            /\ pc' = "done"
            /\ firstRunFiles' = IF firstRunFiles = <<>>
                                THEN <<Existing(files)>> ELSE firstRunFiles
            /\ successes' = successes + 1
            /\ UNCHANGED failedAt
    /\ UNCHANGED <<outputFormat, run, data, fig, dirState, files, written,
                   hexIn, hexOut>>

\* fig.show(), then main returns.
ShowFigure ==
    /\ pc = "png_done"
    /\ log' = Append(log, "show")
    /\ \E ok \in BOOLEAN :
          IF ok
          THEN /\ shown' = shown + 1
               /\ pc' = "done"
               /\ firstRunFiles' = IF firstRunFiles = <<>>
                                   THEN <<Existing(files)>> ELSE firstRunFiles
               /\ successes' = successes + 1
               /\ UNCHANGED failedAt
          ELSE /\ Raise("show")
               /\ UNCHANGED <<shown, firstRunFiles, successes>>
    /\ UNCHANGED <<outputFormat, run, data, fig, dirState, files, written,
                   hexIn, hexOut>>

\* The script is started again: a new process, the same file system.
NextRun ==
    /\ pc \in {"done", "failed"}
    /\ run < MaxRuns
    /\ run' = run + 1
    /\ pc' = "start"
    /\ data' = NoData
    /\ fig' = NoFigure
    /\ log' = <<>>
    /\ written' = <<>>
    /\ shown' = 0
    /\ failedAt' = "none"
    /\ UNCHANGED <<outputFormat, dirState, files, firstRunFiles, successes,
                   hexIn, hexOut>>

Init ==
    /\ outputFormat \in OutputFormats
    /\ pc = "start"
    /\ run = 1
    /\ data = NoData
    /\ fig = NoFigure
    /\ dirState \in {"absent", "dir", "file"}
    /\ files \in [Paths -> {Absent, Stale}]
    /\ dirState # "dir" => \A p \in Paths : files[p] = Absent
    /\ log = <<>>
    /\ written = <<>>
    /\ shown = 0
    /\ failedAt = "none"
    /\ firstRunFiles = <<>>
    /\ successes = 0
    /\ hexIn = [hex_color |-> <<>>, alpha |-> LinkAlpha]
    /\ hexOut = NotCalled

Next ==
    \/ BuildSankeyData
    \/ CreateFigure
    \/ MakeOutputDir
    \/ ExportHtml
    \/ ExportPng
    \/ ShowFigure
    \/ NextRun

Spec == Init /\ [][Next]_vars

---------------------------------------------------------------------------
(* hex_to_rgba on its own: any string of the alphabet, any alpha. *)

\* The marker, the digits of the palette's blue, and a sign: a character
\* that is no hex digit.
HexAlphabet == {"#", "4", "A", "9", "0", "D", "-"}

Alphas == {LinkAlpha, <<"1", ".", "0">>}

InitHex ==
    /\ \E n \in 0..MaxHexLen, a \in Alphas :
          \E s \in [1..n -> HexAlphabet] :
             hexIn = [hex_color |-> s, alpha |-> a]
    /\ hexOut = NotCalled
    /\ outputFormat = "both"
    /\ pc = "hex_to_rgba"
    /\ run = 1
    /\ data = NoData
    /\ fig = NoFigure
    /\ dirState = "absent"
    /\ files = [p \in Paths |-> Absent]
    /\ log = <<>>
    /\ written = <<>>
    /\ shown = 0
    /\ failedAt = "none"
    /\ firstRunFiles = <<>>
    /\ successes = 0

\* hex_to_rgba(hex_color, alpha)
CallHexToRgba ==
    /\ pc = "hex_to_rgba"
    /\ hexOut = NotCalled
    /\ hexOut' = hex_to_rgba(hexIn.hex_color, hexIn.alpha)
    /\ pc' = "returned"
    /\ UNCHANGED <<outputFormat, run, data, fig, dirState, files, log,
                   written, shown, failedAt, firstRunFiles, successes, hexIn>>

NextHex == CallHexToRgba

SpecHex == InitHex /\ [][NextHex]_vars

---------------------------------------------------------------------------
(* Properties of the assembled graph. *)

\* The links entering and leaving node n of the graph d (by position).
EdgesInto(d, n) == {i \in 1..Len(d.targets) : d.targets[i] = n}

EdgesOutOf(d, n) == {i \in 1..Len(d.sources) : d.sources[i] = n}

Nodes(d) == 0..(Len(d.labels) - 1)

\* The sum, in exact thousandths, of the values of the links in E.
RECURSIVE SumThousandths(_, _)
SumThousandths(d, E) ==
    IF E = {} THEN 0
    ELSE LET i == CHOOSE j \in E : TRUE
         IN  Scaled(d.values[i], 1000) + SumThousandths(d, E \ {i})

\* The floating-point sum of the values of the links in E, in list order.
FloatSumOf(d, E) ==
    LET idx == {i \in 1..Len(d.values) : i \in E}
        RECURSIVE Go(_, _)
        Go(i, acc) == IF i > Len(d.values) THEN acc
                      ELSE Go(i + 1, IF i \in idx THEN FAdd(acc, d.values[i])
                                     ELSE acc)
    IN  Go(1, Zero)

InternalNodes(d) ==
    {n \in Nodes(d) : EdgesInto(d, n) # {} /\ EdgesOutOf(d, n) # {}}

\* The graph build_sankey_data returns, and the one main holds once it has
\* called it.
ReturnedGraph == build_sankey_data.value

Assembled == data # NoData

\* C1 as stated: the graph returned by build_sankey_data has 21 nodes and
\* 19 edges (labels and node_colors of 21 entries; sources, targets, values
\* and link_colors of 19 entries).
C1_Original ==
    Assembled =>
        /\ Len(data.labels) = 21
        /\ Len(data.node_colors) = 21
        /\ Len(data.sources) = 19
        /\ Len(data.targets) = 19
        /\ Len(data.values) = 19
        /\ Len(data.link_colors) = 19

\* C1 amended: the graph returned by build_sankey_data has exactly 21 nodes
\* and exactly 20 edges: labels and node_colors have 21 entries each, and
\* sources, targets, values and link_colors have 20 entries each.
C1_NodeAndEdgeCount ==
    Assembled =>
        /\ Len(data.labels) = 21
        /\ Len(data.node_colors) = 21
        /\ Len(data.sources) = 20
        /\ Len(data.targets) = 20
        /\ Len(data.values) = 20
        /\ Len(data.link_colors) = 20

C1_Witness ==
    /\ pc = "assembled"
    /\ Len(data.labels) = 21
    /\ Len(data.sources) = 20

BalancedAt(d, n) ==
    SumThousandths(d, EdgesInto(d, n)) = SumThousandths(d, EdgesOutOf(d, n))

ReturnedGraphBalanced ==
    \A n \in InternalNodes(ReturnedGraph) : BalancedAt(ReturnedGraph, n)

\* C2: the source data is balanced: at every internal node of the graph
\* (one with incoming and outgoing edges) the values of the incoming edges
\* and the values of the outgoing edges, in exact thousandths, have the
\* same sum.
C2_Balanced ==
    Assembled => (data = ReturnedGraph /\ ReturnedGraphBalanced)

\* The text "rgba(192, 57, 43, 0.5)".
CostLinkColor ==
    <<"r", "g", "b", "a", "(", "1", "9", "2", ",", " ", "5", "7", ",", " ",
      "4", "3", ",", " ", "0", ".", "5", ")">>

\* C3: every link's colour is the conversion, at alpha 0.5, of the colour of
\* the node at its target index (not of its source node); a link into a cost
\* node (#C0392B) is rgba(192, 57, 43, 0.5).
C3_LinkColors ==
    Assembled =>
        \A i \in 1..Len(data.targets) :
            LET c == At(data.node_colors, data.targets[i])
            IN  /\ hex_to_rgba(c, LinkAlpha) = Returns(data.link_colors[i])
                /\ c = Color("red") => data.link_colors[i] = CostLinkColor

\* A link from a blue node into a red one carries the red colour.
C3_Witness ==
    /\ pc = "assembled"
    /\ \E i \in 1..Len(data.targets) :
          /\ At(data.node_colors, data.sources[i]) = Color("blue")
          /\ At(data.node_colors, data.targets[i]) = Color("red")
          /\ data.link_colors[i] = CostLinkColor

\* The float the literal 72.277 denotes.
RevenueLiteral == Lit(72277)

RevenueIsProductSum(d) ==
    /\ At(node_data, 4) = <<"Revenue", REVENUE>>
    /\ Len(PRODUCTS) = 4
    /\ REVENUE = RevenueLiteral
    /\ PRODUCTS[1][2] + PRODUCTS[2][2] + PRODUCTS[3][2] + PRODUCTS[4][2]
          = 72277
    /\ Cardinality(EdgesInto(d, 4)) = 4
    /\ FloatSumOf(d, EdgesInto(d, 4)) = REVENUE
    /\ SumThousandths(d, EdgesInto(d, 4)) = 72277
    /\ d.labels[5] = Label("Revenue", RevenueLiteral)

ReturnedGraphRevenue == RevenueIsProductSum(ReturnedGraph)

\* C6: REVENUE, the value of node 4 "Revenue", is the sum of the four
\* product values; that sum is exactly 72.277 (as a float and in exact
\* thousandths), and it is the sum of the values of the four links entering
\* the Revenue node.
C6_Revenue ==
    Assembled => (data = ReturnedGraph /\ ReturnedGraphRevenue)

C6_Witness ==
    /\ pc = "assembled"
    /\ EdgesInto(data, 4) = {1, 2, 3, 4}
    /\ \A i \in 1..4 : data.values[i] = Lit(PRODUCTS[i][2])

\* C10: the links form a well-formed breakdown tree over the declared
\* nodes: every source and target index is in 0..20 and source < target;
\* the product nodes 0..3 have no incoming link; every other node has at
\* least one, and every node but Revenue (4) at most one; every link's value
\* is the declared value of its target node, except the four links from a
\* product to Revenue, whose value is the declared value of their source.
C10_BreakdownTree ==
    Assembled =>
        /\ \A i \in 1..Len(data.sources) :
              /\ data.sources[i] \in 0..20
              /\ data.targets[i] \in 0..20
              /\ data.sources[i] < data.targets[i]
              /\ data.values[i] =
                    IF data.sources[i] \in 0..3 /\ data.targets[i] = 4
                    THEN At(node_data, data.sources[i])[2]
                    ELSE At(node_data, data.targets[i])[2]
        /\ \A n \in 0..3 : EdgesInto(data, n) = {}
        /\ \A n \in 4..20 : EdgesInto(data, n) # {}
        /\ \A n \in 0..20 : n # 4 => Cardinality(EdgesInto(data, n)) <= 1

C10_Witness ==
    /\ pc = "assembled"
    /\ Len(data.sources) = 20
    /\ \E i \in 1..Len(data.sources) :
          data.sources[i] = 6 /\ data.targets[i] = 18
    /\ Cardinality(EdgesInto(data, 4)) = 4

---------------------------------------------------------------------------
(* Properties of hex_to_rgba, under SpecHex. *)

\* s with one leading marker removed, if it has one.
WithoutMarker(s) == IF s # <<>> /\ Head(s) = "#" THEN Tail(s) ELSE s

SixHexDigits(s) == Len(s) = 6 /\ \A i \in 1..6 : IsHexDigit(s[i])

\* The byte two hex digits denote.
ByteOf(hi, lo) == 16 * HexDigitValue(hi) + HexDigitValue(lo)

\* The text "rgba(74, 144, 217, 0.5)".
BlueAtHalf ==
    <<"r", "g", "b", "a", "(", "7", "4", ",", " ", "1", "4", "4", ",", " ",
      "2", "1", "7", ",", " ", "0", ".", "5", ")">>

\* C4: hex_to_rgba strips a leading '#' and returns the three 2-digit hex
\* bytes as (red, green, blue) with the given alpha, so "#4A90D9" at 0.5
\* gives (74, 144, 217, 0.5); and every input that is not exactly 6 hex
\* digits after the marker is stripped (shorter, longer, or with a character
\* that is no hex digit) makes the conversion fail instead of returning a
\* colour.
C4_HexToRgba ==
    hexOut # NotCalled =>
        LET body == WithoutMarker(hexIn.hex_color)
        IN  /\ SixHexDigits(body) =>
                  hexOut = Returns(RgbaText(ByteOf(body[1], body[2]),
                                            ByteOf(body[3], body[4]),
                                            ByteOf(body[5], body[6]),
                                            hexIn.alpha))
            /\ (hexIn.hex_color = Color("blue") /\ hexIn.alpha = LinkAlpha)
                  => hexOut = Returns(BlueAtHalf)
            /\ ~SixHexDigits(body) => hexOut.raised = "ValueError"

---------------------------------------------------------------------------
(* Properties of main. *)

\* The calls of main, in program order.
Pipeline ==
    <<"build_sankey_data", "Figure", "mkdir", "write_html", "write_image",
      "show">>

StepIndex(step) == CHOOSE k \in 1..Len(Pipeline) : Pipeline[k] = step

Count(seq, x) == Cardinality({i \in 1..Len(seq) : seq[i] = x})

\* C5: the format selector alone decides what a successful run writes:
\* "html" exactly one <name>.html and no .png; "png" exactly one <name>.png
\* and no .html; "both" exactly one of each; no other file in any case.
C5_Artifacts ==
    /\ \A i \in 1..Len(written) : written[i] \in {HtmlPath, PngPath}
    /\ files[OtherPath] \in {Absent, Stale}
    /\ pc = "done" =>
          /\ outputFormat = "html" =>
                Count(written, HtmlPath) = 1 /\ Count(written, PngPath) = 0
          /\ outputFormat = "png" =>
                Count(written, HtmlPath) = 0 /\ Count(written, PngPath) = 1
          /\ outputFormat = "both" =>
                Count(written, HtmlPath) = 1 /\ Count(written, PngPath) = 1
          /\ \A p \in {HtmlPath, PngPath} :
                Count(written, p) = 1 => files[p] = Full(run)

\* A successful "html" run in a directory that held no .png before.
C5_Witness ==
    /\ pc = "done"
    /\ outputFormat = "html"
    /\ written = <<HtmlPath>>
    /\ files[HtmlPath] = Full(run)
    /\ files[PngPath] = Absent

\* C7: a run is one pipeline in the order assemble, render, create the
\* directory, export HTML, export PNG, display: no file is written before
\* the directory is created, the HTML export precedes the PNG export, and a
\* run in which no step fails shows the preview exactly once, after all
\* exports, whatever the format (also one that selects no artifact).
C7_Pipeline ==
    /\ \A i, j \in 1..Len(log) :
          i < j => StepIndex(log[i]) < StepIndex(log[j])
    /\ \A i \in 1..Len(log) :
          log[i] \in {"write_html", "write_image"} =>
              \E j \in 1..(i - 1) : log[j] = "mkdir"
    /\ written # <<>> => dirState = "dir"
    /\ pc # "start" => log[1] = "build_sankey_data"
    /\ pc \notin {"start", "assembled"} => log[2] = "Figure"
    /\ pc = "done" =>
          /\ shown = 1
          /\ Count(log, "show") = 1
          /\ log[Len(log)] = "show"
          /\ Count(log, "mkdir") = 1
          /\ Count(log, "write_html") = (IF WantsHtml(outputFormat) THEN 1 ELSE 0)
          /\ Count(log, "write_image") = (IF WantsPng(outputFormat) THEN 1 ELSE 0)
    /\ pc # "done" => shown = 0

\* A run that selects no artifact and still shows the preview.
C7_Witness ==
    /\ pc = "done"
    /\ outputFormat = "svg"
    /\ log = <<"build_sankey_data", "Figure", "mkdir", "show">>
    /\ shown = 1

\* After a failure: main stopped at the failing call and showed nothing.
C8_FailureState ==
    /\ failedAt # "none" =>
          /\ pc = "failed"
          /\ log # <<>>
          /\ log[Len(log)] = failedAt
          /\ shown = 0
    /\ pc = "failed" => failedAt # "none"
    /\ (outputFormat = "both" /\ failedAt = "write_image") =>
          /\ files[HtmlPath] = Full(run)
          /\ shown = 0

\* A step that keeps every file there is; after a failure the only step is
\* the start of another process.
C8_FailureStep ==
    /\ \A p \in Paths : files[p] # Absent => files'[p] # Absent
    /\ pc = "failed" => (pc' = "start" /\ run' = run + 1)

\* C8: a failure raised by a step of main is not caught: the run ends at
\* that step, no later step runs, and nothing already written is removed;
\* with format "both" and a failing PNG export the HTML file written before
\* remains and the preview is never shown.
C8_FailurePropagates == [](C8_FailureState) /\ [][C8_FailureStep]_vars

C8_Witness ==
    /\ pc = "failed"
    /\ outputFormat = "both"
    /\ failedAt = "write_image"
    /\ files[HtmlPath] = Full(run)
    /\ log = <<"build_sankey_data", "Figure", "mkdir", "write_html",
               "write_image">>

\* The paths the format selects.
Selected(format) ==
    {p \in {HtmlPath} : WantsHtml(format)} \cup {p \in {PngPath} : WantsPng(format)}

\* C9: creating the output directory is idempotent and the exports
\* overwrite: a run that finds the directory there does not fail at its
\* creation, a later run replaces the files at the target paths, and after
\* any number of successful runs with the same configuration the directory
\* holds the same set of files as after the first.
C9_Idempotent ==
    /\ failedAt = "mkdir" => dirState # "dir"
    /\ pc = "done" =>
          /\ firstRunFiles = <<Existing(files)>>
          /\ \A p \in Selected(outputFormat) : files[p] = Full(run)
    /\ successes > 0 =>
          /\ dirState = "dir"
          /\ Len(firstRunFiles) = 1
          /\ Selected(outputFormat) \subseteq firstRunFiles[1]

\* A second successful run over the files of a first one.
C9_Witness ==
    /\ pc = "done"
    /\ successes = 2
    /\ run = 2
    /\ outputFormat = "both"
    /\ files[HtmlPath] = Full(2)
    /\ files[PngPath] = Full(2)
    /\ firstRunFiles = <<{HtmlPath, PngPath}>>

=============================================================================
